---- MODULE Spec2Model ----
(***************************************************************************)
(* A model of pygedcom's GedcomParser (src/src/pygedcom/gedcom_parser.py)  *)
(* and of the record classes it builds.                                    *)
(*                                                                         *)
(* Representation of Python strings.  A str is modelled by the list of its *)
(* space-separated words, which is what str.split(" ") returns: "" is      *)
(* <<"">>, "1 NAME " is <<"1", "NAME", "">>.  Every str has exactly one    *)
(* such list and every non-empty list of space-free words is one str, so   *)
(* a + " " + b is the concatenation a \o b.  A file content is modelled    *)
(* the same way by the list of its lines (str.split("\n")).                *)
(***************************************************************************)
EXTENDS Integers, Sequences, FiniteSets, TLC

VARIABLES source, head, individuals, families, sources, objects,
          repositories, op, ret, err, first, removed

vars == <<source, head, individuals, families, sources, objects,
          repositories, op, ret, err, first, removed>>

\* ---------------------------------------------------------------- bounds
\* The longest line of SpecLine, in words; the longest file of SpecVerify, in
\* lines; the longest file of SpecParse, of Spec and of SpecLookup, in blocks
\* of lines.
MaxWords == 4
MaxVerifyLines == 4
MaxBlocks == 3
MaxRecords == 3
MaxLookupRecords == 3

\* ------------------------------------------------------- Python builtins
\* Python's None, for a word (an xref), for a str and for an object.
None == "<None>"
NoneStr == <<None>>
NoneObj == [none |-> TRUE]
NoError == "<no error>"
EmptyStr == <<"">>

\* int(word): the decimal literals of the alphabet; any other word raises
\* ValueError.  Python accepts a sign and leading zeros.
IntLiterals ==
    [w \in {"0", "1", "2", "3", "-1", "00", "01"} |->
        CASE w = "0" -> 0 [] w = "1" -> 1 [] w = "2" -> 2 [] w = "3" -> 3
          [] w = "-1" -> 0 - 1 [] w = "00" -> 0 [] w = "01" -> 1]

is_int(w) == w \in DOMAIN IntLiterals

int(w) == IntLiterals[w]

\* str(n) for an int n: the canonical decimal numeral.
str(n) ==
    CASE n = 0 -> "0" [] n = 1 -> "1" [] n = 2 -> "2" [] n = 3 -> "3"
      [] n = 0 - 1 -> "-1"

\* word.startswith("@")
startswith_at(w) ==
    w \in {"@", "@I1@", "@I2@", "@I3@", "@F1@", "@F2@", "@S1@", "@R1@",
           "@O1@", "@U1@", "@H1@"}

\* " ".join(chars) if chars != [] else ""
join(chars) == IF chars = <<>> THEN EmptyStr ELSE chars

\* ------------------------------------------------------------- tokenizer
\* __parse_line with the xref test left out.
parse_line_no_xref(line) ==
    IF ~is_int(Head(line)) THEN [err |-> "ValueError"]
    ELSE IF Tail(line) = <<>> THEN [err |-> "IndexError"]
    ELSE [err |-> NoError, level |-> int(Head(line)), xref |-> None,
          tag |-> line[2], value |-> join(SubSeq(line, 3, Len(line)))]

\* GedcomParser.__parse_line.  err is the exception the call raises.
parse_line(line) ==
    LET chars0 == line
        first_word == Head(chars0)
        chars1 == Tail(chars0)
    IN  IF ~is_int(first_word) THEN [err |-> "ValueError"]
        ELSE IF chars1 = <<>> THEN [err |-> "IndexError"]
        ELSE LET has_xref == startswith_at(chars1[1])
                 chars2 == IF has_xref THEN Tail(chars1) ELSE chars1
             IN  IF chars2 = <<>> THEN [err |-> "IndexError"]
                 ELSE [err |-> NoError,
                       level |-> int(first_word),
                       xref |-> IF has_xref THEN chars1[1] ELSE None,
                       tag |-> Head(chars2),
                       value |-> join(Tail(chars2))]

\* ------------------------------------------------------------------ verify
\* The level check of verify, and the same without the + 1.
level_invalid_no_step(level, current_level) == level > current_level

level_invalid(level, current_level) == level > current_level + 1

RECURSIVE verify_loop(_, _, _)
verify_loop(lines, current_line, current_level) ==
    IF current_line > Len(lines)
    THEN [ret |-> [status |-> "ok", message |-> <<>>], err |-> NoError]
    ELSE LET line == lines[current_line]
         IN  IF line = EmptyStr
             THEN verify_loop(lines, current_line + 1, current_level)
             ELSE LET parsed_line == parse_line(line)
                  IN  IF parsed_line.err # NoError
                      THEN [ret |-> NoneObj, err |-> parsed_line.err]
                      ELSE IF level_invalid(parsed_line.level, current_level)
                      THEN [ret |-> [status |-> "error",
                                     message |-> <<"Invalid level on line ",
                                                   current_line, ": ", line>>],
                            err |-> NoError]
                      ELSE verify_loop(lines, current_line + 1,
                                       parsed_line.level)

\* GedcomParser.verify: self.source is the content of the file at self.path.
verify(self) == verify_loop(self.source, 1, 0)

\* ------------------------------------------------------------ elements
\* GedcomElement(level, tag, sub_elements, value): a node holds its level,
\* tag and value and the nodes built from its buffer of raw lines.  A line
\* of the buffer at level + 1 opens a child; the lines after it, up to the
\* next line at level + 1, are that child's buffer.
RECURSIVE init_sub_elements(_, _)
init_sub_elements(lines, level) ==
    LET openers == {i \in 1..Len(lines) : parse_line(lines[i]).level = level + 1}
        nth(k) == CHOOSE i \in openers :
                      Cardinality({j \in openers : j < i}) = k - 1
        stop(i) == IF \E j \in openers : j > i
                   THEN (CHOOSE j \in openers :
                            j > i /\ \A m \in openers : m > i => j <= m) - 1
                   ELSE Len(lines)
    IN  [k \in 1..Cardinality(openers) |->
            LET i == nth(k)
                p == parse_line(lines[i])
            IN  [level |-> p.level, tag |-> p.tag, value |-> p.value,
                 sub_elements |->
                    init_sub_elements(SubSeq(lines, i + 1, stop(i)), p.level)]]

\* GedcomElement.find_sub_element(tag): the direct children with that tag.
find_sub_element(sub_elements, tag) ==
    SelectSeq(sub_elements, LAMBDA e : e.tag = tag)

\* GedcomElement.extract_gedcom: "<level> <tag>[ <value>]" and then the
\* children, depth first; the result is the list of emitted lines.
RECURSIVE extract_elements(_)
element_line(e) ==
    <<str(e.level), e.tag>> \o (IF e.value # EmptyStr THEN e.value ELSE <<>>)

extract_element(e) == <<element_line(e)>> \o extract_elements(e.sub_elements)

extract_elements(es) ==
    IF es = <<>> THEN <<>>
    ELSE extract_element(Head(es)) \o extract_elements(Tail(es))

\* GedcomRootElement.extract_gedcom: "<level> [<xref> ]<tag>" and then the
\* children.  An xref of None or "" is no xref.
root_line(r) ==
    <<str(r.level)>> \o (IF r.xref \in {None, ""} THEN <<>> ELSE <<r.xref>>)
                     \o <<r.tag>>

extract_gedcom(r) == <<root_line(r)>> \o extract_elements(r.sub_elements)

\* GedcomRootElement(level, xref, tag, sub_elements)
GedcomRootElement(level, xref, tag, sub_elements) ==
    [level |-> level, xref |-> xref, tag |-> tag,
     sub_elements |-> init_sub_elements(sub_elements, level)]

\* --------------------------------------------------------- individuals
\* word.split("/") for the words of the alphabet.
split_slash_word(w) ==
    CASE w = "/Doe/" -> <<"", "Doe", "">>
      [] w = "/Roe" -> <<"", "Roe">>
      [] OTHER -> <<w>>

\* s.split("/") for a str s: the pieces, each a str.
RECURSIVE split_slash(_)
split_slash(s) ==
    LET q == split_slash_word(s[Len(s)])
        alone == [k \in 1..Len(q) |-> <<q[k]>>]
    IN  IF Len(s) = 1 THEN alone
        ELSE LET before == split_slash(SubSeq(s, 1, Len(s) - 1))
                 n == Len(before)
             IN  [before EXCEPT ![n] = Append(before[n], q[1])] \o Tail(alone)

\* s.strip(): spaces at either end are empty words there.
RECURSIVE lstrip(_)
lstrip(s) == IF Len(s) > 1 /\ s[1] = "" THEN lstrip(Tail(s)) ELSE s

RECURSIVE rstrip(_)
rstrip(s) ==
    IF Len(s) > 1 /\ s[Len(s)] = "" THEN rstrip(SubSeq(s, 1, Len(s) - 1)) ELSE s

strip(s) == rstrip(lstrip(s))

\* found[0].get_value() if found != [] else default
first_value_or(found, default) ==
    IF found # <<>> THEN found[1].value ELSE default

\* found[0] if found != [] else None
first_or_none(found) == IF found # <<>> THEN found[1] ELSE NoneObj

\* GedcomIndividual.__find_name
find_name(sub_elements) ==
    first_value_or(find_sub_element(sub_elements, "NAME"), EmptyStr)

\* GedcomIndividual.__find_first_name
find_first_name(export_name) == strip(<<split_slash(export_name)[1][1]>>)

\* GedcomIndividual.__find_last_name: [-2] raises IndexError on a list of
\* fewer than two pieces.
find_last_name_raises(export_name) == Len(split_slash(export_name)) < 2

find_last_name(export_name) ==
    LET pieces == split_slash(export_name) IN strip(pieces[Len(pieces) - 1])

\* GedcomIndividual.__init_birth and __init_death
init_event(sub_elements, tag) ==
    first_or_none(find_sub_element(sub_elements, tag))

\* GedcomIndividual.__find_sex
find_sex(sub_elements) ==
    first_value_or(find_sub_element(sub_elements, "SEX"), NoneStr)

\* GedcomIndividual.__find_media
values_of(found) == [k \in 1..Len(found) |-> found[k].value]

find_media(sub_elements) == values_of(find_sub_element(sub_elements, "OBJE"))

\* The fields __init__ sets once the name is found; err is the exception
\* the constructor raises, obj the object.
individual_fields(root, export_name) ==
    IF find_last_name_raises(export_name)
    THEN [err |-> "IndexError", obj |-> NoneObj]
    ELSE [err |-> NoError,
          obj |-> [level |-> root.level, xref |-> root.xref,
                   tag |-> root.tag, sub_elements |-> root.sub_elements,
                   name |-> export_name,
                   first_name |-> find_first_name(export_name),
                   last_name |-> find_last_name(export_name),
                   birth |-> init_event(root.sub_elements, "BIRT"),
                   death |-> init_event(root.sub_elements, "DEAT"),
                   sex |-> find_sex(root.sub_elements),
                   media |-> find_media(root.sub_elements)]]

individual_of(root) == individual_fields(root, find_name(root.sub_elements))

\* GedcomIndividual(level, xref, tag, sub_elements)
GedcomIndividual(level, xref, tag, sub_elements) ==
    individual_of(GedcomRootElement(level, xref, tag, sub_elements))

\* ------------------------------------------------------------ families
\* GedcomFamily(level, xref, tag, sub_elements): husband and wife are the
\* first HUSB and WIFE child's value or "", children the values of all CHIL
\* children, marriage the first MARR child or None.
family_of(root) ==
    [level |-> root.level, xref |-> root.xref, tag |-> root.tag,
     sub_elements |-> root.sub_elements,
     husband |-> first_value_or(find_sub_element(root.sub_elements, "HUSB"),
                                EmptyStr),
     wife |-> first_value_or(find_sub_element(root.sub_elements, "WIFE"),
                             EmptyStr),
     children |-> values_of(find_sub_element(root.sub_elements, "CHIL")),
     marriage |-> init_event(root.sub_elements, "MARR")]

GedcomFamily(level, xref, tag, sub_elements) ==
    family_of(GedcomRootElement(level, xref, tag, sub_elements))

\* GedcomFamily.get_parents: the husband and wife references.
family_get_parents(family) == <<family.husband, family.wife>>

\* x in list, for an xref x (a word or None) and a list of str.
xref_in(x, list) == x # None /\ \E k \in 1..Len(list) : list[k] = <<x>>

\* --------------------------------------------------------------- parser
\* GedcomParser.__init__: the fields of a new parser on the file `text`.
new_parser(text) ==
    [source |-> text, head |-> NoneObj, individuals |-> <<>>,
     families |-> <<>>, sources |-> <<>>, objects |-> <<>>,
     repositories |-> <<>>]

\* self.individuals.append(GedcomIndividual(...)): nothing is appended when
\* the constructor raises.
append_individual(self, made) ==
    IF made.err # NoError THEN [self |-> self, err |-> made.err]
    ELSE [self |-> [self EXCEPT !.individuals = Append(@, made.obj)],
          err |-> NoError]

\* __create_element with a last branch that keeps the record of any other
\* tag among the objects.
create_element_keeps_unknown(self, parsed_line, element_lines) ==
    IF parsed_line.tag = "INDI" THEN
        append_individual(self, GedcomIndividual(parsed_line.level,
                                    parsed_line.xref, parsed_line.tag,
                                    element_lines))
    ELSE IF parsed_line.tag = "FAM" THEN
        [self |-> [self EXCEPT !.families =
                      Append(@, GedcomFamily(parsed_line.level, parsed_line.xref,
                                             parsed_line.tag, element_lines))],
         err |-> NoError]
    ELSE IF parsed_line.tag = "HEAD" THEN
        [self |-> [self EXCEPT !.head =
                      GedcomRootElement(parsed_line.level, "", parsed_line.tag,
                                        element_lines)],
         err |-> NoError]
    ELSE IF parsed_line.tag = "SOUR" THEN
        [self |-> [self EXCEPT !.sources =
                      Append(@, GedcomRootElement(parsed_line.level,
                                    parsed_line.xref, parsed_line.tag,
                                    element_lines))],
         err |-> NoError]
    ELSE IF parsed_line.tag = "REPO" THEN
        [self |-> [self EXCEPT !.repositories =
                      Append(@, GedcomRootElement(parsed_line.level,
                                    parsed_line.xref, parsed_line.tag,
                                    element_lines))],
         err |-> NoError]
    ELSE [self |-> [self EXCEPT !.objects =
                      Append(@, GedcomRootElement(parsed_line.level,
                                    parsed_line.xref, parsed_line.tag,
                                    element_lines))],
          err |-> NoError]

\* GedcomParser.__create_element
create_element(self, parsed_line, element_lines) ==
    IF parsed_line.tag = "INDI" THEN
        append_individual(self, GedcomIndividual(parsed_line.level,
                                    parsed_line.xref, parsed_line.tag,
                                    element_lines))
    ELSE IF parsed_line.tag = "FAM" THEN
        [self |-> [self EXCEPT !.families =
                      Append(@, GedcomFamily(parsed_line.level, parsed_line.xref,
                                             parsed_line.tag, element_lines))],
         err |-> NoError]
    ELSE IF parsed_line.tag = "HEAD" THEN
        [self |-> [self EXCEPT !.head =
                      GedcomRootElement(parsed_line.level, "", parsed_line.tag,
                                        element_lines)],
         err |-> NoError]
    ELSE IF parsed_line.tag = "SOUR" THEN
        [self |-> [self EXCEPT !.sources =
                      Append(@, GedcomRootElement(parsed_line.level,
                                    parsed_line.xref, parsed_line.tag,
                                    element_lines))],
         err |-> NoError]
    ELSE IF parsed_line.tag = "REPO" THEN
        [self |-> [self EXCEPT !.repositories =
                      Append(@, GedcomRootElement(parsed_line.level,
                                    parsed_line.xref, parsed_line.tag,
                                    element_lines))],
         err |-> NoError]
    ELSE IF parsed_line.tag = "OBJE" THEN
        [self |-> [self EXCEPT !.objects =
                      Append(@, GedcomRootElement(parsed_line.level,
                                    parsed_line.xref, parsed_line.tag,
                                    element_lines))],
         err |-> NoError]
    ELSE [self |-> self, err |-> NoError]

\* The dictionary parse() returns.
parse_result(self) ==
    [individuals |-> self.individuals, families |-> self.families,
     sources |-> self.sources, objects |-> self.objects,
     repositories |-> self.repositories]

\* The for loop of parse() from line i of lines on, and the call of
\* __create_element after it.
RECURSIVE parse_loop(_, _, _, _, _)
\* After the last __create_element: parse() returns, or the exception goes on.
parse_end(made) ==
    IF made.err # NoError
    THEN [self |-> made.self, ret |-> NoneObj, err |-> made.err]
    ELSE [self |-> made.self, ret |-> parse_result(made.self), err |-> NoError]

\* After __create_element at a line of level <= 0: a new group starts.
parse_next_group(made, lines, i, tmp_parsed_line) ==
    IF made.err # NoError
    THEN [self |-> made.self, ret |-> NoneObj, err |-> made.err]
    ELSE parse_loop(made.self, lines, i + 1, tmp_parsed_line, <<>>)

\* One non-blank line of the loop, tokenized.
parse_step(self, lines, i, current_parsed_line, element_lines, tmp_parsed_line) ==
    IF tmp_parsed_line.err # NoError
    THEN [self |-> self, ret |-> NoneObj, err |-> tmp_parsed_line.err]
    ELSE IF tmp_parsed_line.level > 0
    THEN parse_loop(self, lines, i + 1, current_parsed_line,
                    Append(element_lines, lines[i]))
    ELSE parse_next_group(
             create_element(self, current_parsed_line, element_lines),
             lines, i, tmp_parsed_line)

parse_loop(self, lines, i, current_parsed_line, element_lines) ==
    IF i > Len(lines)
    THEN parse_end(create_element(self, current_parsed_line, element_lines))
    ELSE IF lines[i] = EmptyStr
    THEN parse_loop(self, lines, i + 1, current_parsed_line, element_lines)
    ELSE parse_step(self, lines, i, current_parsed_line, element_lines,
                    parse_line(lines[i]))

\* The assignments parse() starts with.
reset(self) ==
    [self EXCEPT !.head = NoneObj, !.individuals = <<>>, !.families = <<>>,
                 !.sources = <<>>, !.objects = <<>>, !.repositories = <<>>]

\* parse() once the fields are reset and the first line is tokenized.
parse_from(cleared, current_parsed_line) ==
    IF current_parsed_line.err # NoError
    THEN [self |-> cleared, ret |-> NoneObj, err |-> current_parsed_line.err]
    ELSE parse_loop(cleared, cleared.source, 2, current_parsed_line, <<>>)

\* parse() without the assignments it starts with.
parse_without_reset(self) == parse_from(self, parse_line(self.source[1]))

\* GedcomParser.parse
parse(self) == parse_from(reset(self), parse_line(self.source[1]))

\* --------------------------------------------------------------- lookup
\* __find_root_element returning the loop variable after the loop: the
\* last element on a miss.
find_root_element_leaks(collection, xref) ==
    LET hits == {k \in 1..Len(collection) :
                    collection[k].xref # None /\ <<collection[k].xref>> = xref}
    IN  IF hits = {}
        THEN (IF collection = <<>> THEN NoneObj
              ELSE collection[Len(collection)])
        ELSE collection[CHOOSE k \in hits : \A j \in hits : k <= j]

\* __find_root_element going on after a match: the last element of that
\* xref.
find_root_element_last(collection, xref) ==
    LET hits == {k \in 1..Len(collection) :
                    collection[k].xref # None /\ <<collection[k].xref>> = xref}
    IN  IF hits = {} THEN NoneObj
        ELSE collection[CHOOSE k \in hits : \A j \in hits : j <= k]

\* GedcomParser.__find_root_element: xref is a str.
find_root_element(collection, xref) ==
    LET hits == {k \in 1..Len(collection) :
                    collection[k].xref # None /\ <<collection[k].xref>> = xref}
    IN  IF hits = {} THEN NoneObj
        ELSE collection[CHOOSE k \in hits : \A j \in hits : k <= j]

\* GedcomParser.find_individual
find_individual(self, xref) == find_root_element(self.individuals, xref)

\* GedcomParser.find_family
find_family(self, xref) == find_root_element(self.families, xref)

\* GedcomParser.find_source
find_source(self, xref) == find_root_element(self.sources, xref)

\* GedcomParser.find_object
find_object(self, xref) == find_root_element(self.objects, xref)

\* GedcomParser.find_repository
find_repository(self, xref) == find_root_element(self.repositories, xref)

\* The body of the loop of get_parents for one family.
parents_of(self, individual, family) ==
    IF xref_in(individual.xref, family.children)
    THEN (IF family.husband # EmptyStr
          THEN <<find_individual(self, family.husband)>> ELSE <<>>)
         \o (IF family.wife # EmptyStr
             THEN <<find_individual(self, family.wife)>> ELSE <<>>)
    ELSE <<>>

\* The body of the loop of get_children for one family.
children_of(self, individual, family) ==
    IF xref_in(individual.xref, family_get_parents(family))
    THEN [k \in 1..Len(family.children) |->
             find_individual(self, family.children[k])]
    ELSE <<>>

RECURSIVE get_parents_loop(_, _, _)
get_parents_loop(self, individual, k) ==
    IF k > Len(self.families) THEN <<>>
    ELSE parents_of(self, individual, self.families[k])
         \o get_parents_loop(self, individual, k + 1)

RECURSIVE get_children_loop(_, _, _)
get_children_loop(self, individual, k) ==
    IF k > Len(self.families) THEN <<>>
    ELSE children_of(self, individual, self.families[k])
         \o get_children_loop(self, individual, k + 1)

\* GedcomParser.get_parents
get_parents(self, individual) == get_parents_loop(self, individual, 1)

\* GedcomParser.get_children
get_children(self, individual) == get_children_loop(self, individual, 1)

\* --------------------------------------------------------------- export
\* The record's export(empty_fields): its semantic fields.  An absent
\* event is "".
event_data(e) == IF e = NoneObj THEN [absent |-> TRUE] ELSE e

individual_export(i) ==
    [name |-> i.name, first_name |-> i.first_name, last_name |-> i.last_name,
     sex |-> i.sex, birth |-> event_data(i.birth),
     death |-> event_data(i.death), media |-> i.media]

family_export(f) ==
    [husband |-> f.husband, wife |-> f.wife, children |-> f.children,
     marriage |-> event_data(f.marriage)]

root_export(r) == [tag |-> r.tag]

\* The dictionary the loop `for r in collection: d[r.get_xref()] = data(r)`
\* builds: a later record replaces an earlier one of the same xref.
keyed(collection, data) ==
    [x \in {collection[k].xref : k \in 1..Len(collection)} |->
        LET hits == {k \in 1..Len(collection) : collection[k].xref = x}
        IN  data[CHOOSE k \in hits : \A j \in hits : j <= k]]

\* record.export(empty_fields) for each record of a collection.
individual_exports(collection) ==
    [k \in 1..Len(collection) |-> individual_export(collection[k])]

family_exports(collection) ==
    [k \in 1..Len(collection) |-> family_export(collection[k])]

root_exports(collection) ==
    [k \in 1..Len(collection) |-> root_export(collection[k])]

entry(present, key, value) == IF present THEN key :> value ELSE <<>>

export_json(self, empty_fields) ==
    entry(empty_fields \/ self.head # NoneObj, "head",
          IF self.head # NoneObj THEN root_export(self.head)
          ELSE [absent |-> TRUE])
    @@ entry(empty_fields \/ self.individuals # <<>>, "individuals",
             keyed(self.individuals, individual_exports(self.individuals)))
    @@ entry(empty_fields \/ self.families # <<>>, "families",
             keyed(self.families, family_exports(self.families)))
    @@ entry(empty_fields \/ self.sources # <<>>, "sources",
             keyed(self.sources, root_exports(self.sources)))
    @@ entry(empty_fields \/ self.objects # <<>>, "objects",
             keyed(self.objects, root_exports(self.objects)))
    @@ entry(empty_fields \/ self.repositories # <<>>, "repositories",
             keyed(self.repositories, root_exports(self.repositories)))

RECURSIVE extract_all(_)
extract_all(collection) ==
    IF collection = <<>> THEN <<>>
    ELSE extract_gedcom(Head(collection)) \o extract_all(Tail(collection))

\* The gedcom export with the families ahead of the individuals.
export_gedcom_families_first(self) ==
    (IF self.head # NoneObj THEN extract_gedcom(self.head) ELSE <<>>)
    \o extract_all(self.families)
    \o extract_all(self.individuals)
    \o extract_all(self.sources)
    \o extract_all(self.objects)
    \o extract_all(self.repositories)
    \o << <<"0", "TRLR">> >>
    \o <<EmptyStr>>

\* The gedcom export without the closing line.
export_gedcom_no_trailer(self) ==
    (IF self.head # NoneObj THEN extract_gedcom(self.head) ELSE <<>>)
    \o extract_all(self.individuals)
    \o extract_all(self.families)
    \o extract_all(self.sources)
    \o extract_all(self.objects)
    \o extract_all(self.repositories)
    \o <<EmptyStr>>

\* The lines of the content export(format="gedcom") builds; every line is
\* ended by "\n", so the content ends with an empty last line.
export_gedcom(self) ==
    (IF self.head # NoneObj THEN extract_gedcom(self.head) ELSE <<>>)
    \o extract_all(self.individuals)
    \o extract_all(self.families)
    \o extract_all(self.sources)
    \o extract_all(self.objects)
    \o extract_all(self.repositories)
    \o << <<"0", "TRLR">> >>
    \o <<EmptyStr>>

\* export with the format test of a json-only exporter.
export_json_only(self, format, empty_fields) ==
    IF format \notin {"json"}
    THEN [self |-> self, ret |-> NoneObj, err |-> "FormatException"]
    ELSE [self |-> self, ret |-> export_json(self, empty_fields),
          err |-> NoError]

\* GedcomParser.export
export(self, format, empty_fields) ==
    IF format \notin {"json", "gedcom"}
    THEN [self |-> self, ret |-> NoneObj, err |-> "FormatException"]
    ELSE IF format = "json"
    THEN [self |-> self, ret |-> export_json(self, empty_fields),
          err |-> NoError]
    ELSE [self |-> self, ret |-> export_gedcom(self), err |-> NoError]

\* ------------------------------------------------------------- mutation
\* GedcomFamily with a parent reference blanked when it is xref.
blank_parent(family, xref) ==
    [family EXCEPT !.husband = IF @ = xref THEN EmptyStr ELSE @,
                   !.wife = IF @ = xref THEN EmptyStr ELSE @]

\* GedcomParser.remove_individual: xref is a str.
remove_individual(self, xref) ==
    [self |->
        [self EXCEPT
            !.individuals =
                SelectSeq(@, LAMBDA i : ~(i.xref # None /\ <<i.xref>> = xref)),
            !.families =
                [k \in 1..Len(@) |-> blank_parent(@[k], xref)]],
     ret |-> NoneObj, err |-> NoError]

\* ------------------------------------------------------------- inputs
Blank == EmptyStr

\* The sequences over S of 1 to n members.
SeqsUpTo(S, n) == UNION {[1..k -> S] : k \in 1..n}

RECURSIVE Flatten(_)
Flatten(blocks) ==
    IF blocks = <<>> THEN <<>> ELSE Head(blocks) \o Flatten(Tail(blocks))

\* SpecLine: one line of up to MaxWords words.
Words == {"0", "1", "-1", "01", "x", "", "@I1@", "NAME", "John"}

LineTexts == {<<line>> : line \in SeqsUpTo(Words, MaxWords)}

\* SpecVerify: files of up to MaxVerifyLines lines.
VerifyLines ==
    {Blank, <<"0", "HEAD">>, <<"1", "NAME", "John", "/Doe/">>,
     <<"2", "DATE", "1925">>, <<"3", "TIME">>, <<"x", "NAME">>,
     <<"-1", "FAM">>}

VerifyTexts == SeqsUpTo(VerifyLines, MaxVerifyLines)

\* SpecParse: files of up to MaxBlocks blocks of lines.
Blocks ==
    {<< <<"0", "HEAD">> >>,
     << <<"0", "@I1@", "INDI">>, <<"1", "NAME", "John", "/Doe/">>,
        <<"1", "BIRT">>, <<"2", "DATE", "1900">> >>,
     << <<"0", "@I3@", "INDI">> >>,
     << <<"0", "@F1@", "FAM">>, <<"1", "HUSB", "@I1@">>,
        <<"1", "CHIL", "@I3@">>, <<"1", "MARR">>, <<"2", "DATE", "1925">> >>,
     << <<"0", "@U1@", "SUBM">>, <<"1", "NAME", "Ann", "/Roe">> >>,
     << <<"0", "TRLR">> >>,
     << Blank >>,
     << <<"0", "@S1@", "SOUR">> >>,
     << <<"0", "@R1@", "REPO">> >>,
     << <<"0", "@O1@", "OBJE">>, <<"1", "FILE", "a.png">> >>,
     << <<"x", "NAME">> >>,
     << <<"1", "SEX", "M">> >>,
     << <<"2", "DATE", "1925">> >>,
     << <<"00", "HEAD">> >>,
     << <<"0", "@H1@", "HEAD", "v">> >>,
     << <<"1", "NOTE", "">> >>,
     << <<"1", "@I2@", "NOTE">> >>,
     << <<"-1", "FAM">> >>}

ParseTexts == {Flatten(b) : b \in SeqsUpTo(Blocks, MaxBlocks)}

\* Spec: files of up to MaxRecords records.
Records ==
    {<< <<"0", "HEAD">>, <<"1", "CHAR", "UTF-8">> >>,
     << <<"0", "@I1@", "INDI">>, <<"1", "NAME", "John", "/Doe/">>,
        <<"1", "SEX", "M">> >>,
     << <<"0", "@I2@", "INDI">>, <<"1", "NAME", "Jane", "/Roe">> >>,
     << <<"0", "@I3@", "INDI">> >>,
     << <<"0", "@F1@", "FAM">>, <<"1", "HUSB", "@I1@">>,
        <<"1", "WIFE", "@I2@">>, <<"1", "CHIL", "@I3@">>, <<"1", "MARR">>,
        <<"2", "DATE", "1925">> >>,
     << <<"0", "@F2@", "FAM">>, <<"1", "HUSB", "@I2@">>,
        <<"1", "CHIL", "@I1@">> >>,
     << <<"0", "@S1@", "SOUR">> >>,
     << <<"0", "TRLR">> >>}

RecordTexts == {Flatten(b) : b \in SeqsUpTo(Records, MaxRecords)}

\* SpecLookup: files of up to MaxLookupRecords records; records share an
\* xref within a collection and across collections.
LookupRecords ==
    {<< <<"0", "HEAD">> >>,
     << <<"0", "@I1@", "INDI">>, <<"1", "NAME", "John", "/Doe/">> >>,
     << <<"0", "@I1@", "INDI">>, <<"1", "NAME", "Jane", "/Roe">>,
        <<"1", "SEX", "F">> >>,
     << <<"0", "@F1@", "FAM">>, <<"1", "HUSB", "@I1@">> >>,
     << <<"0", "@F1@", "FAM">>, <<"1", "WIFE", "@I1@">> >>,
     << <<"0", "@I1@", "SOUR">> >>,
     << <<"0", "@F1@", "REPO">> >>,
     << <<"0", "@I1@", "OBJE">> >>}

LookupTexts == {Flatten(b) : b \in SeqsUpTo(LookupRecords, MaxLookupRecords)}

LookupXrefs == {<<"@I1@">>, <<"@F1@">>, <<"@S1@">>}

\* The arguments the operations are called with.
Formats == {"json", "gedcom", "xml"}

Xrefs == {<<"@I1@">>, <<"@I2@">>, <<"@I3@">>}

\* ---------------------------------------------------------------- state
\* The parser object: the content of the file at self.path and the fields.
Self ==
    [source |-> source, head |-> head, individuals |-> individuals,
     families |-> families, sources |-> sources, objects |-> objects,
     repositories |-> repositories]

Becomes(self) ==
    /\ source' = self.source
    /\ head' = self.head
    /\ individuals' = self.individuals
    /\ families' = self.families
    /\ sources' = self.sources
    /\ objects' = self.objects
    /\ repositories' = self.repositories

\* GedcomParser(path), the file at path holding one of texts.
Constructed(texts) ==
    /\ \E text \in texts :
          LET self == new_parser(text)
          IN  /\ source = self.source
              /\ head = self.head
              /\ individuals = self.individuals
              /\ families = self.families
              /\ sources = self.sources
              /\ objects = self.objects
              /\ repositories = self.repositories
    /\ op = [name |-> "__init__"]
    /\ ret = NoneObj
    /\ err = NoError
    /\ first = NoneObj
    /\ removed = FALSE

Returns(r) ==
    /\ Becomes(r.self)
    /\ ret' = r.ret
    /\ err' = r.err

ParseLine ==
    /\ LET r == parse_line(source[1])
       IN  /\ ret' = r
           /\ err' = r.err
    /\ op' = [name |-> "parse_line"]
    /\ Becomes(Self)
    /\ UNCHANGED <<first, removed>>

Verify ==
    /\ LET r == verify(Self)
       IN  Returns([self |-> Self, ret |-> r.ret, err |-> r.err])
    /\ op' = [name |-> "verify"]
    /\ UNCHANGED <<first, removed>>

Parse ==
    /\ LET r == parse(Self)
       IN  /\ Returns(r)
           /\ first' = IF first = NoneObj
                       THEN [self |-> r.self, err |-> r.err] ELSE first
    /\ op' = [name |-> "parse"]
    /\ UNCHANGED removed

ExportWith(formats, flags) ==
    \E format \in formats, empty_fields \in flags :
        /\ Returns(export(Self, format, empty_fields))
        /\ op' = [name |-> "export", format |-> format,
                  empty_fields |-> empty_fields]
        /\ UNCHANGED <<first, removed>>

Export == ExportWith(Formats, BOOLEAN)

ExportGedcom == ExportWith({"gedcom"}, {TRUE})

GetParents ==
    \E k \in 1..Len(individuals) :
        /\ Returns([self |-> Self, ret |-> get_parents(Self, individuals[k]),
                    err |-> NoError])
        /\ op' = [name |-> "get_parents", individual |-> individuals[k]]
        /\ UNCHANGED <<first, removed>>

GetChildren ==
    \E k \in 1..Len(individuals) :
        /\ Returns([self |-> Self, ret |-> get_children(Self, individuals[k]),
                    err |-> NoError])
        /\ op' = [name |-> "get_children", individual |-> individuals[k]]
        /\ UNCHANGED <<first, removed>>

RemoveIndividual ==
    \E xref \in Xrefs :
        /\ Returns(remove_individual(Self, xref))
        /\ op' = [name |-> "remove_individual", xref |-> xref]
        /\ removed' = (removed \/ remove_individual(Self, xref).self # Self)
        /\ UNCHANGED first

ExportJson == ExportWith({"json"}, BOOLEAN)

\* A lookup called with xref that returned found.
Looked(name, xref, found) ==
    /\ Returns([self |-> Self, ret |-> found, err |-> NoError])
    /\ op' = [name |-> name, xref |-> xref]
    /\ UNCHANGED <<first, removed>>

FindIndividual ==
    \E xref \in LookupXrefs :
        Looked("find_individual", xref, find_individual(Self, xref))

FindFamily ==
    \E xref \in LookupXrefs :
        Looked("find_family", xref, find_family(Self, xref))

FindSource ==
    \E xref \in LookupXrefs :
        Looked("find_source", xref, find_source(Self, xref))

FindObject ==
    \E xref \in LookupXrefs :
        Looked("find_object", xref, find_object(Self, xref))

FindRepository ==
    \E xref \in LookupXrefs :
        Looked("find_repository", xref, find_repository(Self, xref))

\* ---------------------------------------------------------- specifications
InitLine == Constructed(LineTexts)
NextLine == ParseLine
SpecLine == InitLine /\ [][NextLine]_vars

InitVerify == Constructed(VerifyTexts)
NextVerify == Verify
SpecVerify == InitVerify /\ [][NextVerify]_vars

InitParse == Constructed(ParseTexts)
NextParse == Parse \/ ExportGedcom
SpecParse == InitParse /\ [][NextParse]_vars

InitLookup == Constructed(LookupTexts)
NextLookup ==
    \/ Parse
    \/ ExportJson
    \/ FindIndividual
    \/ FindFamily
    \/ FindSource
    \/ FindObject
    \/ FindRepository
    \/ RemoveIndividual
SpecLookup == InitLookup /\ [][NextLookup]_vars

Init == Constructed(RecordTexts)
Next ==
    \/ Parse
    \/ Export
    \/ GetParents
    \/ GetChildren
    \/ RemoveIndividual
Spec == Init /\ [][Next]_vars

\* ================================================================ claims
\* ----------------------------------------------------------------- C2
NonBlankBefore(lines, k) == {j \in 1..(k - 1) : lines[j] # Blank}

LevelBefore(lines, k) ==
    IF NonBlankBefore(lines, k) = {} THEN 0
    ELSE parse_line(lines[CHOOSE j \in NonBlankBefore(lines, k) :
                              \A m \in NonBlankBefore(lines, k) : m <= j]).level

Tokenizes(line) == line = Blank \/ parse_line(line).err = NoError

\* The lines k that are not blank, with every line up to k blank or well
\* formed, whose level is more than one above the level of the non-blank
\* line before them (0 at the start).
LevelJumps(lines) ==
    {k \in 1..Len(lines) :
        /\ lines[k] # Blank
        /\ \A j \in 1..k : Tokenizes(lines[j])
        /\ parse_line(lines[k]).level > LevelBefore(lines, k) + 1}

FirstLevelJump(lines) ==
    CHOOSE k \in LevelJumps(lines) : \A j \in LevelJumps(lines) : k <= j

\* C2: verify() returns status "error" exactly when some non-blank line has
\* a level greater than current_level + 1 (current_level 0 at the start,
\* then the level of the previous non-blank line); the message names the
\* first such line by its 1-based number, blank lines counted, and its text,
\* and no line after it is examined (a malformed later line raises
\* nothing); otherwise verify() returns status "ok" and an empty message.
C2_VerifyReportsFirstLevelJump ==
    op.name = "verify" =>
        IF LevelJumps(source) # {}
        THEN /\ err = NoError
             /\ ret = [status |-> "error",
                       message |-> <<"Invalid level on line ",
                                     FirstLevelJump(source), ": ",
                                     source[FirstLevelJump(source)]>>]
        ELSE /\ (\A k \in 1..Len(source) : Tokenizes(source[k])) => err = NoError
             /\ err = NoError => ret = [status |-> "ok", message |-> <<>>]

\* A level-2 line right after a level-0 line and a blank line is reported as
\* line 3, and the malformed line 4 is not examined.
C2_Witness ==
    /\ op.name = "verify"
    /\ err = NoError
    /\ Len(source) = 4
    /\ source[2] = Blank
    /\ parse_line(source[1]).err = NoError
    /\ parse_line(source[1]).level = 0
    /\ parse_line(source[3]).err = NoError
    /\ parse_line(source[3]).level = 2
    /\ source[4] # Blank
    /\ parse_line(source[4]).err # NoError
    /\ ret.status = "error"
    /\ ret.message[2] = 3

\* ----------------------------------------------------------------- C7
\* C7: the tokenizer accepts a line only when its first token is a
\* non-negative integer: any other first token, a negative number included,
\* makes it fail with the malformed-line error, and every accepted line has
\* level >= 0.
C7_OnlyNonNegativeLevels ==
    op.name = "parse_line" =>
        /\ ~(is_int(source[1][1]) /\ int(source[1][1]) >= 0) => err # NoError
        /\ err = NoError => ret.level >= 0

\* ----------------------------------------------------------------- C8
\* The line "<level> [<xref> ]<tag>[ <value>]" of a tokenizer result.
Rebuilt(r) ==
    <<str(r.level)>> \o (IF r.xref # None THEN <<r.xref>> ELSE <<>>)
                     \o <<r.tag>>
                     \o (IF r.value # EmptyStr THEN r.value ELSE <<>>)

\* Where the tag of a line stands: after the level and the optional xref.
TagAt(line) == IF startswith_at(line[2]) THEN 3 ELSE 2

Described(line, r) ==
    /\ r.level = int(line[1])
    /\ r.xref = (IF startswith_at(line[2]) THEN line[2] ELSE None)
    /\ r.tag = line[TagAt(line)]
    /\ r.value = (IF Len(line) > TagAt(line)
                  THEN SubSeq(line, TagAt(line) + 1, Len(line)) ELSE EmptyStr)

\* C8 as stated: every non-empty line whose first token is a level is
\* tokenized into (level, xref, tag, value) as described, and rebuilding
\* "<level> [<xref> ]<tag>[ <value>]" gives back the tokens of the line.
C8_EveryLevelLineTokenized ==
    (op.name = "parse_line" /\ source[1] # Blank /\ is_int(source[1][1])) =>
        /\ err = NoError
        /\ Described(source[1], ret)
        /\ Rebuilt(ret) = source[1]

\* C8 amended: a line whose first token is a level and that has a tag
\* token after the level and the optional xref is tokenized as described;
\* rebuilding gives back the tokens of the line when the level is written
\* as str() writes it and the tag is not followed by one empty token alone
\* (a single trailing space).  A line with no tag token raises IndexError.
C8_TaggedLineTokenized ==
    (op.name = "parse_line" /\ is_int(source[1][1])) =>
        IF Len(source[1]) >= 2 /\ Len(source[1]) >= TagAt(source[1])
        THEN /\ err = NoError
             /\ Described(source[1], ret)
             /\ (/\ str(int(source[1][1])) = source[1][1]
                 /\ SubSeq(source[1], TagAt(source[1]) + 1, Len(source[1]))
                        # <<"">>)
                   => Rebuilt(ret) = source[1]
        ELSE err = "IndexError"

C8_Witness ==
    /\ op.name = "parse_line"
    /\ err = NoError
    /\ ret.xref # None
    /\ ret.value # EmptyStr
    /\ Rebuilt(ret) = source[1]

\* ----------------------------------------------------------------- C4
\* C4: parse() is an idempotent reset: after any earlier parse() and
\* remove_individual() calls, parse() on the same source leaves the same
\* head and the same collections, record for record, as the first parse()
\* did (and ends the same way).
C4_ParseIsIdempotentReset ==
    op.name = "parse" => first = [self |-> Self, err |-> err]

\* A parse() that completes after a remove_individual() changed the
\* collections an earlier parse() had filled.
C4_Witness ==
    /\ op.name = "parse"
    /\ err = NoError
    /\ removed
    /\ individuals # <<>>
    /\ families # <<>>

\* ----------------------------------------------------------------- C5
\* C5: get_parents and get_children return only resolved individuals: the
\* list never holds None and every entry is a member of the individuals
\* collection.
C5_OnlyResolvedIndividuals ==
    op.name \in {"get_parents", "get_children"} =>
        /\ err = NoError
        /\ \A k \in 1..Len(ret) :
              /\ ret[k] # NoneObj
              /\ \E j \in 1..Len(individuals) : individuals[j] = ret[k]

\* ----------------------------------------------------------------- C6
\* C6: export fails with the unsupported-format error for every format
\* other than "json" and "gedcom", producing no output, and never for these
\* two; the call leaves the header and the collections unchanged.
C6_UnsupportedFormat ==
    [][op'.name = "export" =>
          /\ (err' = "FormatException") <=> (op'.format \notin {"json", "gedcom"})
          /\ err' = "FormatException" => ret' = NoneObj
          /\ err' \in {"FormatException", NoError}
          /\ Self' = Self]_vars

C6_Witness ==
    /\ op.name = "export"
    /\ op.format = "xml"
    /\ err = "FormatException"
    /\ head # NoneObj
    /\ individuals # <<>>

\* ----------------------------------------------------------------- C3
XrefIs(record, xref) == record.xref # None /\ <<record.xref>> = xref

Blanked(reference, xref) == IF reference = xref THEN EmptyStr ELSE reference

\* What remove_individual(xref) does between the parser before and after,
\* in the fields and in export().
Removal(before, after, xref) ==
    LET was == export(before, "json", TRUE).ret
        now == export(after, "json", TRUE).ret
    IN  /\ find_individual(after, xref) = NoneObj
        /\ \A k \in 1..Len(after.individuals) :
              ~XrefIs(after.individuals[k], xref)
        /\ after.individuals =
              SelectSeq(before.individuals, LAMBDA i : ~XrefIs(i, xref))
        /\ DOMAIN now.individuals = DOMAIN was.individuals \ {xref[1]}
        /\ \A x \in DOMAIN now.individuals :
              now.individuals[x] = was.individuals[x]
        /\ Len(after.families) = Len(before.families)
        /\ \A k \in 1..Len(after.families) :
              after.families[k] =
                 [before.families[k] EXCEPT !.husband = Blanked(@, xref),
                                            !.wife = Blanked(@, xref)]
        /\ DOMAIN now.families = DOMAIN was.families
        /\ \A f \in DOMAIN now.families :
              now.families[f] =
                 [was.families[f] EXCEPT !.husband = Blanked(@, xref),
                                         !.wife = Blanked(@, xref)]
        /\ now.head = was.head
        /\ now.sources = was.sources
        /\ now.objects = was.objects
        /\ now.repositories = was.repositories
        /\ after.source = before.source

KnownTags == {"INDI", "FAM", "HEAD", "SOUR", "REPO", "OBJE"}

\* The level-0 lines of a tag __create_element does not know.
UnknownGroups(lines) ==
    {i \in 1..Len(lines) :
        /\ lines[i] # Blank
        /\ parse_line(lines[i]).err = NoError
        /\ parse_line(lines[i]).level = 0
        /\ parse_line(lines[i]).tag \notin KnownTags}

\* The last line of the group opened at line i: the line before the next
\* non-blank line that is malformed or has a level <= 0.
GroupEnd(lines, i) ==
    LET stops == {j \in (i + 1)..Len(lines) :
                     /\ lines[j] # Blank
                     /\ \/ parse_line(lines[j]).err # NoError
                        \/ parse_line(lines[j]).level <= 0}
    IN  IF stops = {} THEN Len(lines)
        ELSE (CHOOSE j \in stops : \A m \in stops : j <= m) - 1

Without(lines, i, j) ==
    SubSeq(lines, 1, i - 1) \o SubSeq(lines, j + 1, Len(lines))

\* The outcome of parse() on the file `lines`; a file of no line at all
\* gives the parser as constructed.
ParsedFile(lines) ==
    IF lines = <<>> THEN [self |-> new_parser(lines), err |-> NoError]
    ELSE [self |-> parse(new_parser(lines)).self,
          err |-> parse(new_parser(lines)).err]

SameRecords(a, b) ==
    /\ a.head = b.head
    /\ a.individuals = b.individuals
    /\ a.families = b.families
    /\ a.sources = b.sources
    /\ a.objects = b.objects
    /\ a.repositories = b.repositories

\* C9: a level-0 group of a tag other than INDI, FAM, HEAD, SOUR, REPO and
\* OBJE is dropped by parse() without an error: parse() raises an error
\* exactly when parse() of the file without the group and its nested lines
\* raises one, and a parse() that completes leaves the head and every
\* collection as that parse() does, so the groups before and after the
\* dropped one are dispatched all the same.
C9_UnknownGroupDropped ==
    op.name = "parse" =>
        \A i \in UnknownGroups(source) :
            /\ (err = NoError) <=>
                  (ParsedFile(Without(source, i, GroupEnd(source, i))).err
                      = NoError)
            /\ err = NoError =>
                  SameRecords(Self,
                      ParsedFile(Without(source, i, GroupEnd(source, i))).self)

\* An unknown group with a nested line stands between an individual and a
\* family, and both were dispatched.
C9_Witness ==
    /\ op.name = "parse"
    /\ err = NoError
    /\ individuals # <<>>
    /\ families # <<>>
    /\ \E i \in UnknownGroups(source) :
          /\ GroupEnd(source, i) > i
          /\ \E j \in 1..(i - 1) : source[j] = <<"0", "@I1@", "INDI">>
          /\ \E j \in (i + 1)..Len(source) :
                source[j] = <<"0", "@F1@", "FAM">>

\* ---------------------------------------------------------------- C10
\* C10: a missing sub-element is never an error: parse() of a file whose
\* lines all tokenize completes without raising, and an individual with no
\* NAME child has the empty string for its name (with no SEX, BIRT or DEAT
\* child its sex, birth or death is None).
C10_MissingSubElementIsNoError ==
    (op.name = "parse" /\ \A k \in 1..Len(source) :
                              parse_line(source[k]).err = NoError) =>
        /\ err = NoError
        /\ \A k \in 1..Len(individuals) :
              LET i == individuals[k]
              IN  /\ find_sub_element(i.sub_elements, "NAME") = <<>>
                        => i.name = EmptyStr
                  /\ find_sub_element(i.sub_elements, "SEX") = <<>>
                        => i.sex = NoneStr
                  /\ find_sub_element(i.sub_elements, "BIRT") = <<>>
                        => i.birth = NoneObj
                  /\ find_sub_element(i.sub_elements, "DEAT") = <<>>
                        => i.death = NoneObj

\* ----------------------------------------------------------------- C1
NonBlankLines(lines) == SelectSeq(lines, LAMBDA line : line # Blank)

\* The file was accepted by verify() and by the parse() before the export.
Accepted ==
    /\ first # NoneObj
    /\ first.err = NoError
    /\ verify(Self).err = NoError
    /\ verify(Self).ret.status = "ok"

\* Where export("gedcom") puts the record of a level-0 line.
Rank(tag) ==
    CASE tag = "HEAD" -> 0 [] tag = "INDI" -> 1 [] tag = "FAM" -> 2
      [] tag = "SOUR" -> 3 [] tag = "OBJE" -> 4 [] tag = "REPO" -> 5
      [] OTHER -> 6

\* The non-blank lines `lines` of an accepted file are as export("gedcom")
\* writes them: the levels are written as str() writes them and are not
\* negative; the file starts with a level-0 line and ends with its only
\* line "0 TRLR"; every other level-0 line has one of the known tags, no
\* value, no xref on HEAD, there is one HEAD at most and the level-0 lines
\* come in the order HEAD, INDI, FAM, SOUR, OBJE, REPO; a nested line has no
\* xref and does not end with one space after the tag.
Canonical(lines) ==
    LET p(k) == parse_line(lines[k])
        opens == {k \in 1..Len(lines) : p(k).level = 0}
    IN  /\ lines # <<>>
        /\ \A k \in 1..Len(lines) :
              /\ p(k).level >= 0
              /\ str(p(k).level) = lines[k][1]
              /\ p(k).level > 0 => p(k).xref = None /\ lines[k][Len(lines[k])] # ""
        /\ 1 \in opens
        /\ lines[Len(lines)] = <<"0", "TRLR">>
        /\ \A k \in opens \ {Len(lines)} :
              /\ p(k).tag \in KnownTags
              /\ p(k).value = EmptyStr
              /\ Len(lines[k]) = (IF p(k).xref = None THEN 2 ELSE 3)
              /\ p(k).tag = "HEAD" => p(k).xref = None
              /\ \A j \in opens \ {Len(lines)} :
                    j < k => /\ Rank(p(j).tag) <= Rank(p(k).tag)
                             /\ p(k).tag # "HEAD"

ExportKeys ==
    {"head", "individuals", "families", "sources", "objects", "repositories"}

\* The records of the collection exported under a key, and their data.
Exported(key) ==
    CASE key = "individuals" ->
            [records |-> individuals, data |-> individual_exports(individuals)]
      [] key = "families" ->
            [records |-> families, data |-> family_exports(families)]
      [] key = "sources" ->
            [records |-> sources, data |-> root_exports(sources)]
      [] key = "objects" ->
            [records |-> objects, data |-> root_exports(objects)]
      [] key = "repositories" ->
            [records |-> repositories, data |-> root_exports(repositories)]

\* C11: with empty_fields true export("json") always has the keys head,
\* individuals, families, sources, objects and repositories, an empty
\* collection being an empty mapping and a missing header an empty string;
\* with empty_fields false a key is present exactly when its collection is
\* not empty (head: when a header was parsed); each present collection maps
\* every record's xref to that record's exported data.
C11_StructuredExport ==
    (op.name = "export" /\ op.format = "json") =>
        /\ err = NoError
        /\ op.empty_fields => DOMAIN ret = ExportKeys
        /\ ~op.empty_fields =>
              DOMAIN ret =
                 {key \in ExportKeys \ {"head"} : Exported(key).records # <<>>}
                 \cup (IF head # NoneObj THEN {"head"} ELSE {})
        /\ "head" \in DOMAIN ret =>
              ret.head = (IF head # NoneObj THEN root_export(head)
                          ELSE [absent |-> TRUE])
        /\ \A key \in DOMAIN ret \ {"head"} :
              /\ DOMAIN ret[key] =
                    {Exported(key).records[k].xref :
                        k \in 1..Len(Exported(key).records)}
              /\ \A k \in 1..Len(Exported(key).records) :
                    ret[key][Exported(key).records[k].xref]
                        = Exported(key).data[k]

\* ---------------------------------------------------------------- C12
FindNames ==
    {"find_individual", "find_family", "find_source", "find_object",
     "find_repository"}

\* The collection of the parser `self` a lookup searches.
Searched(self, name) ==
    CASE name = "find_individual" -> self.individuals
      [] name = "find_family" -> self.families
      [] name = "find_source" -> self.sources
      [] name = "find_object" -> self.objects
      [] name = "find_repository" -> self.repositories

\* found is the first record of collection with that xref, None when the
\* collection has none.
FirstOf(collection, xref, found) ==
    IF \E k \in 1..Len(collection) : XrefIs(collection[k], xref)
    THEN \E k \in 1..Len(collection) :
            /\ XrefIs(collection[k], xref)
            /\ \A j \in 1..(k - 1) : ~XrefIs(collection[j], xref)
            /\ found = collection[k]
    ELSE found = NoneObj

\* C12: after any parse() and remove_individual() calls, find_individual,
\* find_family, find_source, find_object and find_repository return the
\* first record, in the order of the collection, of their own collection
\* whose xref is the argument, and None, raising nothing, when that
\* collection has no such record, whatever the other collections hold; the
\* lookup changes no state.
C12_LookupFirstOfOwnCollection ==
    [][op'.name \in FindNames =>
          /\ err' = NoError
          /\ FirstOf(Searched(Self, op'.name), op'.xref, ret')
          /\ Self' = Self]_vars

\* After a removal changed the parser, find_family returned the first of
\* two different families of one xref.
C12_Witness ==
    /\ op.name = "find_family"
    /\ removed
    /\ Len(families) >= 2
    /\ XrefIs(families[1], op.xref)
    /\ XrefIs(families[2], op.xref)
    /\ families[1] # families[2]
    /\ ret = families[1]
    /\ find_individual(Self, op.xref) = NoneObj
    /\ sources # <<>>

\* ---------------------------------------------------------------- C13
\* C13: blank lines are ignored wherever they occur, the first line, the
\* last line and a file of blank lines only included: parse() raises an
\* error only when parse() of the file without its blank lines raises one,
\* and a parse() that completes leaves the head and the collections of that
\* parse().
C13_BlankLinesIgnored ==
    op.name = "parse" =>
        /\ (err = NoError) <=>
              (ParsedFile(NonBlankLines(source)).err = NoError)
        /\ err = NoError =>
              SameRecords(Self, ParsedFile(NonBlankLines(source)).self)

\* ---------------------------------------------------------------- C14
\* The lines that open a group: the first line and every level-0 line.
GroupOpeners(lines) ==
    {1} \cup {k \in 1..Len(lines) :
                 lines[k] # Blank /\ parse_line(lines[k]).level = 0}

\* The child-line buffer of the group opened at line k: the non-blank
\* lines of level > 0 from there to the next opener or the end.
GroupBuffer(lines, k) ==
    LET later == {j \in GroupOpeners(lines) : j > k}
        last == IF later = {} THEN Len(lines)
                ELSE (CHOOSE j \in later : \A m \in later : j <= m) - 1
    IN  SelectSeq(SubSeq(lines, k + 1, last),
                  LAMBDA line : line # Blank /\ parse_line(line).level > 0)

\* The parser after the groups opened at `opens` were dispatched in order.
RECURSIVE Dispatched(_, _, _)
Dispatched(self, lines, opens) ==
    IF opens = {} THEN self
    ELSE LET k == CHOOSE j \in opens : \A m \in opens : j <= m
         IN  Dispatched(create_element(self, parse_line(lines[k]),
                                       GroupBuffer(lines, k)).self,
                        lines, opens \ {k})

\* C14: in a parse() that completes, the first line and every level-0 line
\* open a group, the buffer handed to a record's constructor is the
\* non-blank lines of level > 0 between its opening line and the next
\* level-0 line (or the end), in source order, every non-blank line belongs
\* to one group, and the records of each collection are in the order of
\* their opening lines.
C14_TopLevelGrouping ==
    (op.name = "parse" /\ err = NoError) =>
        /\ \A k \in 1..Len(source) :
              \/ source[k] = Blank
              \/ k \in GroupOpeners(source)
              \/ parse_line(source[k]).level > 0
        /\ SameRecords(Self,
               Dispatched(reset(Self), source, GroupOpeners(source)))

\* ---------------------------------------------------------------- C15
Trailer == <<"0", "TRLR">>

\* The level-0 lines of a tag among lines, in order.
RecordLines(lines, tag) ==
    SelectSeq(lines, LAMBDA line :
        /\ line # Blank
        /\ parse_line(line).level = 0
        /\ parse_line(line).tag = tag)

\* The level-0 lines of the known tags among lines, in order.
KnownRecordLines(lines) ==
    SelectSeq(lines, LAMBDA line :
        /\ line # Blank
        /\ parse_line(line).level = 0
        /\ parse_line(line).tag \in KnownTags)

\* C15: export("gedcom") is the header when there is one, then the
\* individuals, the families, the sources, the objects and the
\* repositories, each collection in its order, and then the line "0 TRLR",
\* which is the last line and occurs once, whether the file had such a line
\* or not; after a parse() that completed, the records of each type are in
\* the order of their level-0 lines in the file, however the types were
\* interleaved there.
C15_GedcomExportOrder ==
    (op.name = "export" /\ op.format = "gedcom") =>
        /\ err = NoError
        /\ ret = Flatten(<<IF head # NoneObj THEN extract_gedcom(head) ELSE <<>>,
                           extract_all(individuals), extract_all(families),
                           extract_all(sources), extract_all(objects),
                           extract_all(repositories), <<Trailer, Blank>> >>)
        /\ NonBlankLines(ret)[Len(NonBlankLines(ret))] = Trailer
        /\ Len(RecordLines(ret, "TRLR")) = 1
        /\ \A j, k \in 1..Len(KnownRecordLines(ret)) :
              j < k => Rank(parse_line(KnownRecordLines(ret)[j]).tag)
                          <= Rank(parse_line(KnownRecordLines(ret)[k]).tag)
        /\ (first # NoneObj /\ first.err = NoError) =>
              \A tag \in KnownTags \ {"HEAD"} :
                  RecordLines(ret, tag) = RecordLines(source, tag)

\* A file with a family ahead of an individual and its "0 TRLR" line in the
\* middle was parsed and exported.
C15_Witness ==
    /\ op.name = "export"
    /\ op.format = "gedcom"
    /\ first # NoneObj
    /\ first.err = NoError
    /\ individuals # <<>>
    /\ families # <<>>
    /\ parse_line(KnownRecordLines(source)[1]).tag = "FAM"
    /\ \E k \in 2..(Len(source) - 1) : source[k] = Trailer
    /\ source[Len(source)] # Trailer
    /\ Len(ret) = Len(source) + 1

====
